---- MODULE Spec2Model ----
(***************************************************************************)
(* Model of src/client/index.ts: the MCP command-line client.  main parses *)
(* the command line, connects to the tool host, runs the interactive chat  *)
(* loop (processQuery per line) and in its finally block cleans up and     *)
(* exits.  Every await on an external collaborator (tool host, model       *)
(* provider, console) is a position of the main flow; the collaborator's   *)
(* answer is the input of the action that resumes it.  Transport close and *)
(* error callbacks are asynchronous events that may fire between any two   *)
(* steps of the main flow.                                                 *)
(*                                                                         *)
(* Text is a sequence of tokens, so that joining, formatting and parsing   *)
(* are computed and not assumed.                                           *)
(***************************************************************************)
EXTENDS Integers, Sequences, FiniteSets, TLC

VARIABLES
    pc,              \* position of the main flow
    port,            \* main: let port
    tools,           \* MCPClient.tools
    handlersSet,     \* transport.onclose / onerror are registered
    query,           \* processQuery: parameter query
    messages,        \* processQuery: const messages
    finalText,       \* processQuery: const finalText
    toolResults,     \* processQuery: const toolResults
    message,         \* processQuery: response.choices[0].message
    idx,             \* processQuery: position of the for-of loop in message.tool_calls
    toolName,        \* processQuery: const toolName
    toolArgs,        \* processQuery: const toolArgs
    answer,          \* value returned by processQuery
    printed,         \* what chatLoop's console.log wrote for the latest query
    reported,        \* error kinds written to the console by the program
    thrown,          \* the exception that is propagating up the main flow
    exitCode,        \* process exit status
    closeCalls,      \* number of mcp.close() calls made by cleanup
    mainCleanups,    \* number of cleanup calls made by main's finally block
    events,          \* number of transport close/error events delivered
    nQueries,        \* number of processQuery calls started in the session
    modelQueries,    \* completions.create calls issued by the current processQuery
    toolInvocations, \* mcp.callTool calls issued by the current processQuery
    extFailed,       \* an external call of the current processQuery failed
    followupCalls,   \* a follow-up response of the current query carried tool calls
    errorResults,    \* ids of the requests whose tool result was an error payload
    sentLen,         \* length of the history passed with the latest model query
    prevSentLen,     \* length of the history passed with the model query before it
    sameAsLast,      \* the current query repeats the text of the one before it
    toolFree,        \* no query of the session so far got a tool-call request
    badArg,          \* the command line held a port value that is not an integer
    followups,       \* contents of the follow-up responses of the current query
    invoked,         \* the callTool requests issued by the current query, in order
    pending,         \* main-flow external operations issued and not yet settled
    inFlight         \* processQuery calls started and not yet over

vars == <<pc, port, tools, handlersSet, query, messages, finalText, toolResults,
          message, idx, toolName, toolArgs, answer, printed, reported, thrown,
          exitCode, closeCalls, mainCleanups, events, nQueries, modelQueries,
          toolInvocations, extFailed, followupCalls, errorResults, sentLen,
          prevSentLen, sameAsLast, toolFree, badArg, followups, invoked,
          pending, inFlight>>

(***************************************************************************)
(* Bounds of the model.                                                    *)
(***************************************************************************)
MaxCalls == 2
MaxQueries == 2
MaxEvents == 1

(***************************************************************************)
(* Values.                                                                 *)
(***************************************************************************)
Null == [kind |-> "null"]
Str(s) == [kind |-> "string", chars |-> s]
NoValue == [kind |-> "none"]

\* JavaScript truthiness of a string-or-null value: null and "" are falsy.
Truthy(v) == v.kind = "string" /\ v.chars # <<>>

\* A variant that joins the texts with nothing between them.
RECURSIVE JoinBare(_)
JoinBare(frags) ==
    IF frags = <<>> THEN <<>> ELSE frags[1] \o JoinBare(Tail(frags))

\* Array.prototype.join("\n") over an array of texts.
RECURSIVE Join(_)
Join(frags) ==
    IF frags = <<>> THEN <<>>
    ELSE IF Len(frags) = 1 THEN frags[1]
    ELSE frags[1] \o <<"\n">> \o Join(Tail(frags))

(***************************************************************************)
(* main: the command line.  An argument is a sequence of tokens; the port  *)
(* flag followed by "=" is what startsWith("--mcp-localhost-port=") sees.  *)
(***************************************************************************)
DEFAULT_PORT == 8123

PortFlag == "--mcp-localhost-port"

ArgvChoices ==
    { <<>>,
      << <<"--verbose">> >>,
      << <<PortFlag, "=", "abc">> >>,
      << <<PortFlag, "=", "12ab">> >>,
      << <<PortFlag, "=", "12ab">>, <<PortFlag, "=">> >> }

StartsWithPortFlag(arg) ==
    Len(arg) >= 2 /\ arg[1] = PortFlag /\ arg[2] = "="

\* arg.split("=")[1]: the text between the first and the second "=".
SplitValue(arg) ==
    IF Len(arg) >= 3 /\ arg[3] # "=" THEN arg[3] ELSE ""

\* parseInt(text, 10): the longest leading run of digits, NaN when there is none.
ParseInt(text) ==
    CASE text = "12ab" -> [nan |-> FALSE, n |-> 12]
      [] text = "9000" -> [nan |-> FALSE, n |-> 9000]
      [] OTHER         -> [nan |-> TRUE, n |-> 0]

\* The text is an integer literal (what the command line is meant to carry).
IsIntegerText(text) == text = "9000"

\* The for loop of main over process.argv from position i, with port p so far.
RECURSIVE ParseArgs(_, _, _)
ParseArgs(argv, i, p) ==
    IF i > Len(argv) THEN [exit |-> FALSE, port |-> p]
    ELSE IF StartsWithPortFlag(argv[i])
         THEN LET value == ParseInt(SplitValue(argv[i]))
              IN  IF ~value.nan THEN ParseArgs(argv, i + 1, value.n)
                  ELSE [exit |-> TRUE, port |-> p]
         ELSE ParseArgs(argv, i + 1, p)

HasMalformedPort(argv) ==
    \E i \in 1..Len(argv) :
        StartsWithPortFlag(argv[i]) /\ ~IsIntegerText(SplitValue(argv[i]))

(***************************************************************************)
(* The tool host and the model provider: what they may answer.             *)
(***************************************************************************)
Catalog == {"calculator", "weather"}

ToolCallChoices ==
    { [name |-> "calculator", arguments |-> "{\"a\": 1}"],
      [name |-> "weather",    arguments |-> "{bad"],
      [name |-> "nosuch",     arguments |-> ""] }

\* The provider gives every request of a response its own id.
CallId(i) == <<"call", i>>

Arr(items) == [kind |-> "array", items |-> items]

WithIds(cs) == Arr([i \in 1..Len(cs) |-> [id |-> CallId(i), function |-> cs[i]]])

RECURSIVE SeqsUpTo(_, _)
SeqsUpTo(S, n) ==
    IF n = 0 THEN {<<>>}
    ELSE LET shorter == SeqsUpTo(S, n - 1)
         IN  shorter \cup {Append(s, x) : s \in {t \in shorter : Len(t) = n - 1}, x \in S}

ToolCallLists == {WithIds(cs) : cs \in SeqsUpTo(ToolCallChoices, MaxCalls)}

Contents == {Null, Str(<<>>), Str(<<"A">>)}

\* response.choices[0].message of the first model query.
AssistantMessages ==
    { [role |-> "assistant", content |-> c, tool_calls |-> t] :
        c \in Contents, t \in {Null} \cup ToolCallLists }

\* followupResponse.choices[0].message.
FollowupMessages ==
    { [role |-> "assistant", content |-> c, tool_calls |-> t] :
        c \in {Null, Str(<<"F">>)},
        t \in {Null, WithIds(<<[name |-> "weather", arguments |-> "{}"]>>)} }

\* What mcp.callTool resolves with: the host ran the tool, or answers with an
\* application-level error payload (the only result for a name it does not know).
ToolOutcomes(name) ==
    {[content |-> <<"error: ", name>>, isError |-> TRUE]}
    \cup (IF name \in Catalog
          THEN {[content |-> <<"result of ", name>>, isError |-> FALSE]}
          ELSE {})

Inputs == {"hi", "yo", "quit", "Quit"}

ToLowerCase(s) == IF s = "Quit" THEN "quit" ELSE s

(***************************************************************************)
(* processQuery: the pure pieces.                                          *)
(***************************************************************************)
\* JSON.parse on the argument texts the provider may send.
JSONParse(text) ==
    CASE text = "{}"          -> [ok |-> TRUE, value |-> {}]
      [] text = "{\"a\": 1}"  -> [ok |-> TRUE, value |-> {<<"a", 1>>}]
      [] OTHER                -> [ok |-> FALSE, value |-> {}]

\* JSON.stringify of a parsed argument document (no insignificant whitespace).
JSONStringify(value) ==
    IF value = {} THEN "{}" ELSE "{\"a\":1}"

\* toolCall.function.arguments || "{}"
ArgumentText(toolCall) ==
    IF toolCall.function.arguments = "" THEN "{}" ELSE toolCall.function.arguments

\* The requests the for-of loop runs over; if (message.tool_calls) skips null.
Calls(m) == IF m.tool_calls.kind = "array" THEN m.tool_calls.items ELSE <<>>

NumCalls(m) == Len(Calls(m))

HasToolCalls(m) == NumCalls(m) > 0

UserMessage(text) == [role |-> "user", content |-> Str(<<text>>)]

\* A variant that labels the fragment it pushes.
PushContentLabelled(ft, content) ==
    IF Truthy(content) THEN Append(ft, <<"assistant: ">> \o content.chars) ELSE ft

\* if (content) finalText.push(content)
PushContent(ft, content) ==
    IF Truthy(content) THEN Append(ft, content.chars) ELSE ft

TraceLine(name, args) ==
    <<"[Calling tool ", name, " with args ", JSONStringify(args), "]">>

ToolMessage(toolCall, result) ==
    [role |-> "tool", tool_call_id |-> toolCall.id, content |-> result.content]

\* A variant that pushes the assistant message only when the history lacks it.
FoldResultOnce(msgs, m, toolCall, result) ==
    IF \E k \in 1..Len(msgs) : msgs[k] = m
    THEN Append(msgs, ToolMessage(toolCall, result))
    ELSE msgs \o <<m, ToolMessage(toolCall, result)>>

\* A variant that keeps an error payload out of the history.
FoldResultDropError(msgs, m, toolCall, result) ==
    IF result.isError THEN Append(msgs, m)
    ELSE msgs \o <<m, [role |-> "tool", tool_call_id |-> toolCall.id,
                      content |-> result.content]>>

\* messages.push(message); messages.push({role: "tool", ...})
FoldResult(msgs, m, toolCall, result) ==
    msgs \o <<m, ToolMessage(toolCall, result)>>

\* A variant that steps over a request.
NextIndexSkip(i) == i + 2

NextIndex(i) == i + 1

(***************************************************************************)
(* The initial state: the process has started, main has not run yet.       *)
(***************************************************************************)
Init ==
    /\ pc = "main"
    /\ port = DEFAULT_PORT
    /\ tools = {}
    /\ handlersSet = FALSE
    /\ query = ""
    /\ messages = <<>>
    /\ finalText = <<>>
    /\ toolResults = <<>>
    /\ message = NoValue
    /\ idx = 0
    /\ toolName = ""
    /\ toolArgs = {}
    /\ answer = NoValue
    /\ printed = NoValue
    /\ reported = {}
    /\ thrown = "none"
    /\ exitCode = -1
    /\ closeCalls = 0
    /\ mainCleanups = 0
    /\ events = 0
    /\ nQueries = 0
    /\ modelQueries = 0
    /\ toolInvocations = 0
    /\ extFailed = FALSE
    /\ followupCalls = FALSE
    /\ errorResults = {}
    /\ sentLen = 0
    /\ prevSentLen = 0
    /\ sameAsLast = FALSE
    /\ toolFree = TRUE
    /\ badArg = FALSE
    /\ followups = <<>>
    /\ invoked = <<>>
    /\ pending = <<>>
    /\ inFlight = 0

sessionVars == <<port, tools, handlersSet, badArg>>
localVars == <<query, messages, finalText, toolResults, message, idx, toolName,
               toolArgs, answer>>
countVars == <<nQueries, modelQueries, toolInvocations, extFailed, followupCalls,
               errorResults, sentLen, prevSentLen, sameAsLast, toolFree>>
traceVars == <<followups, invoked>>

\* The main flow calls an external operation and awaits it.
Issue(p, op) == Append(p, op)

\* A variant in which the operation awaited is still counted as outstanding.
SettledKept(p) == p

\* The awaited operation has settled and the main flow resumes.
Settled(p) == SubSeq(p, 1, Len(p) - 1)

(***************************************************************************)
(* cleanup, and main's finally block.                                      *)
(***************************************************************************)
\* cleanup(): await this.mcp.close().  The number of close calls after it.
Cleanup(n) == n + 1

\* A variant of main's finally block that exits without calling cleanup.
EnterFinallyNoCleanup(err) ==
    /\ thrown' = err
    /\ pending' = Settled(pending)
    /\ inFlight' = 0
    /\ pc' = "closing"
    /\ UNCHANGED <<closeCalls, mainCleanups>>

\* An exception (or the return of chatLoop) reaches main's finally block: cleanup
\* is called and awaited.
EnterFinally(err) ==
    /\ thrown' = err
    /\ closeCalls' = Cleanup(closeCalls)
    /\ mainCleanups' = mainCleanups + 1
    /\ pending' = Issue(Settled(pending), "close")
    /\ inFlight' = 0
    /\ pc' = "closing"

\* The status main's finally block passes to process.exit.
FinallyExitCode(err) == 0

\* mcp.close() has resolved: process.exit(0).
Exit ==
    /\ pc = "closing"
    /\ pc' = "exited"
    /\ exitCode' = FinallyExitCode(thrown)
    /\ UNCHANGED <<traceVars, inFlight, sessionVars, localVars, countVars, printed, reported, thrown,
                   closeCalls, mainCleanups, events>>
    /\ pending' = Settled(pending)

\* transport.onclose fires: the handler logs and calls cleanup.
TransportClose ==
    /\ handlersSet
    /\ pc # "exited"
    /\ events < MaxEvents
    /\ events' = events + 1
    /\ closeCalls' = Cleanup(closeCalls)
    /\ UNCHANGED <<traceVars, pending, inFlight, pc, sessionVars, localVars, countVars, printed, reported, thrown,
                   exitCode, mainCleanups>>

\* transport.onerror fires: the handler logs the error and calls cleanup.
TransportError ==
    /\ handlersSet
    /\ pc # "exited"
    /\ events < MaxEvents
    /\ events' = events + 1
    /\ closeCalls' = Cleanup(closeCalls)
    /\ reported' = reported \cup {"SSE transport error"}
    /\ UNCHANGED <<traceVars, pending, inFlight, pc, sessionVars, localVars, countVars, printed, thrown,
                   exitCode, mainCleanups>>

(***************************************************************************)
(* main and connectToServer.                                               *)
(***************************************************************************)
\* main up to its first await: the argument loop, then connectToServer is entered
\* and mcp.connect is awaited.
Main ==
    /\ pc = "main"
    /\ \E argv \in ArgvChoices :
        LET r == ParseArgs(argv, 1, DEFAULT_PORT) IN
        /\ badArg' = HasMalformedPort(argv)
        /\ port' = r.port
        /\ IF r.exit
           THEN /\ reported' = reported \cup {"Invalid value for --mcp-localhost-port"}
                /\ exitCode' = 1
                /\ pc' = "exited"
                /\ pending' = pending
           ELSE /\ pc' = "connect"
                /\ pending' = Issue(pending, "connect")
                /\ UNCHANGED <<reported, exitCode>>
    /\ UNCHANGED <<traceVars, inFlight, tools, handlersSet, localVars, countVars, printed, thrown,
                   closeCalls, mainCleanups, events>>

\* mcp.connect resolved: setUpTransport registers the handlers, listTools is awaited.
ConnectOk ==
    /\ pc = "connect"
    /\ handlersSet' = TRUE
    /\ pc' = "listTools"
    /\ UNCHANGED <<traceVars, inFlight, port, tools, badArg, localVars, countVars, printed, reported,
                   thrown, exitCode, closeCalls, mainCleanups, events>>
    /\ pending' = Issue(Settled(pending), "listTools")

\* new URL or mcp.connect threw: the catch block logs and rethrows.
ConnectFails ==
    /\ pc = "connect"
    /\ reported' = reported \cup {"Failed to connect to MCP server"}
    /\ EnterFinally("ConnectionError")
    /\ UNCHANGED <<traceVars, sessionVars, localVars, countVars, printed, exitCode, events>>

\* listTools resolved: the catalog is mapped, chatLoop starts and asks for a line.
ListToolsOk ==
    /\ pc = "listTools"
    /\ tools' = Catalog
    /\ pc' = "question"
    /\ UNCHANGED <<traceVars, inFlight, port, handlersSet, badArg, localVars, countVars, printed,
                   reported, thrown, exitCode, closeCalls, mainCleanups, events>>
    /\ pending' = Issue(Settled(pending), "question")

\* A variant whose catch block logs the failure and does not rethrow it.
ListToolsFailsSwallowed ==
    /\ pc = "listTools"
    /\ reported' = reported \cup {"Failed to connect to MCP server"}
    /\ thrown' = "ConnectionError"
    /\ pending' = Issue(Settled(pending), "question")
    /\ pc' = "question"
    /\ UNCHANGED <<sessionVars, localVars, countVars, traceVars, printed, exitCode,
                   closeCalls, mainCleanups, events, inFlight>>

\* listTools rejected: the catch block logs and rethrows.
ListToolsFails ==
    /\ pc = "listTools"
    /\ reported' = reported \cup {"Failed to connect to MCP server"}
    /\ EnterFinally("ConnectionError")
    /\ UNCHANGED <<traceVars, sessionVars, localVars, countVars, printed, exitCode, events>>

(***************************************************************************)
(* chatLoop and processQuery.                                              *)
(***************************************************************************)
\* The history processQuery starts from.
InitialMessages(text) == <<UserMessage(text)>>

\* rl.question resolved with a line.  "quit" breaks out of the loop: rl.close(),
\* chatLoop returns and main's finally block runs.  Any other line starts
\* processQuery, which builds its history and awaits the first model query.
ReadLine ==
    /\ pc = "question"
    /\ \E text \in Inputs :
        IF ToLowerCase(text) = "quit"
        THEN /\ EnterFinally("none")
             /\ UNCHANGED <<localVars, countVars, traceVars, printed>>
        ELSE /\ nQueries < MaxQueries
             /\ nQueries' = nQueries + 1
             /\ query' = text
             /\ sameAsLast' = (nQueries > 0 /\ text = query)
             /\ messages' = InitialMessages(text)
             /\ finalText' = <<>>
             /\ toolResults' = <<>>
             /\ message' = NoValue
             /\ idx' = 0
             /\ toolName' = ""
             /\ toolArgs' = {}
             /\ answer' = NoValue
             /\ printed' = NoValue
             /\ modelQueries' = 1
             /\ toolInvocations' = 0
             /\ extFailed' = FALSE
             /\ followupCalls' = FALSE
             /\ errorResults' = {}
             /\ prevSentLen' = sentLen
             /\ sentLen' = Len(messages')
             /\ followups' = <<>>
             /\ invoked' = <<>>
             /\ pending' = Issue(Settled(pending), "create")
             /\ inFlight' = inFlight + 1
             /\ pc' = "create"
             /\ UNCHANGED <<toolFree, thrown, closeCalls, mainCleanups>>
    /\ UNCHANGED <<sessionVars, reported, exitCode, events>>

\* The head of the for-of loop at request i of message m, with the answer buffer ft:
\* past the last request processQuery returns the joined buffer; otherwise the
\* argument text is parsed (a SyntaxError leaves processQuery and chatLoop and
\* reaches main's finally block) and mcp.callTool is awaited.
LoopHead(m, i, ft) ==
    IF i > NumCalls(m)
    THEN /\ answer' = Str(Join(ft))
         /\ pc' = "returned"
         /\ idx' = idx
         /\ pending' = Settled(pending)
         /\ inFlight' = inFlight - 1
         /\ UNCHANGED <<toolName, toolArgs, toolInvocations, thrown, closeCalls,
                        mainCleanups, invoked>>
    ELSE LET toolCall == Calls(m)[i]
             parsed == JSONParse(ArgumentText(toolCall))
         IN  /\ idx' = i
             /\ answer' = answer
             /\ toolName' = toolCall.function.name
             /\ IF parsed.ok
                THEN /\ toolArgs' = parsed.value
                     /\ toolInvocations' = toolInvocations + 1
                     /\ invoked' = Append(invoked, [name |-> toolCall.function.name,
                                                     args |-> parsed.value])
                     /\ pending' = Issue(Settled(pending), "callTool")
                     /\ pc' = "callTool"
                     /\ UNCHANGED <<thrown, closeCalls, mainCleanups, inFlight>>
                ELSE /\ EnterFinally("SyntaxError")
                     /\ UNCHANGED <<toolArgs, toolInvocations, invoked>>

\* The first model query resolved.
CreateResponds ==
    /\ pc = "create"
    /\ \E m \in AssistantMessages :
        /\ message' = m
        /\ finalText' = PushContent(<<>>, m.content)
        /\ toolFree' = (toolFree /\ ~HasToolCalls(m))
        /\ LoopHead(m, 1, finalText')
    /\ UNCHANGED <<followups, sessionVars, query, messages, toolResults, printed, reported,
                   exitCode, events, nQueries, modelQueries, extFailed,
                   followupCalls, errorResults, sentLen, prevSentLen, sameAsLast>>

\* An external call awaited by processQuery rejected with err: nothing catches it
\* in processQuery or chatLoop (its finally closes readline), so it reaches main's
\* finally block.
Escapes(err) ==
    /\ extFailed' = TRUE
    /\ EnterFinally(err)
    /\ UNCHANGED <<traceVars, sessionVars, localVars, printed, reported, exitCode, events,
                   nQueries, modelQueries, toolInvocations, followupCalls,
                   errorResults, sentLen, prevSentLen, sameAsLast, toolFree>>

CreateFails ==
    /\ pc = "create"
    /\ Escapes("TransportError")

\* mcp.callTool resolved with a result (an error payload included): the result is
\* folded into the history and the follow-up model query is awaited.
CallToolReturns ==
    /\ pc = "callTool"
    /\ \E result \in ToolOutcomes(toolName) :
        LET toolCall == Calls(message)[idx] IN
        /\ toolResults' = Append(toolResults, result)
        /\ finalText' = Append(finalText, TraceLine(toolName, toolArgs))
        /\ messages' = FoldResult(messages, message, toolCall, result)
        /\ errorResults' = IF result.isError THEN errorResults \cup {toolCall.id}
                           ELSE errorResults
    /\ modelQueries' = modelQueries + 1
    /\ prevSentLen' = sentLen
    /\ sentLen' = Len(messages')
    /\ pending' = Issue(Settled(pending), "followup")
    /\ pc' = "followup"
    /\ UNCHANGED <<traceVars, inFlight, sessionVars, query, message, idx, toolName, toolArgs, answer,
                   printed, reported, thrown, exitCode, closeCalls, mainCleanups,
                   events, nQueries, toolInvocations, extFailed, followupCalls,
                   sameAsLast, toolFree>>

\* mcp.callTool rejected: the connection broke, or the host refused the request.
CallToolThrows ==
    /\ pc = "callTool"
    /\ \E err \in {"TransportError", "McpError"} : Escapes(err)

\* The follow-up model query resolved: its text is kept, any tool calls it carries
\* are not looked at, and the loop goes on to the next request.
FollowupResponds ==
    /\ pc = "followup"
    /\ \E m \in FollowupMessages :
        /\ finalText' = PushContent(finalText, m.content)
        /\ followupCalls' = (followupCalls \/ HasToolCalls(m))
        /\ followups' = Append(followups, m.content)
        /\ LoopHead(message, NextIndex(idx), finalText')
    /\ UNCHANGED <<sessionVars, query, messages, toolResults, message, printed,
                   reported, exitCode, events, nQueries, modelQueries, extFailed,
                   errorResults, sentLen, prevSentLen, sameAsLast, toolFree>>

FollowupFails ==
    /\ pc = "followup"
    /\ Escapes("TransportError")

\* processQuery returned: chatLoop prints the response and asks for the next line.
PrintResponse ==
    /\ pc = "returned"
    /\ printed' = Str(<<"\n">> \o answer.chars)
    /\ pc' = "question"
    /\ UNCHANGED <<traceVars, inFlight, sessionVars, localVars, countVars, reported, thrown, exitCode,
                   closeCalls, mainCleanups, events>>
    /\ pending' = Issue(pending, "question")

Next ==
    \/ Main
    \/ ConnectOk
    \/ ConnectFails
    \/ ListToolsOk
    \/ ListToolsFails
    \/ ReadLine
    \/ CreateResponds
    \/ CreateFails
    \/ CallToolReturns
    \/ CallToolThrows
    \/ FollowupResponds
    \/ FollowupFails
    \/ PrintResponse
    \/ Exit
    \/ TransportClose
    \/ TransportError

Spec == Init /\ [][Next]_vars

TypeOK ==
    /\ pc \in {"main", "connect", "listTools", "question", "create", "callTool",
               "followup", "returned", "closing", "exited"}
    /\ exitCode \in {-1, 0, 1}
    /\ idx \in 0..(MaxCalls + 1)
    /\ nQueries \in 0..MaxQueries

(***************************************************************************)
(* Properties.                                                             *)
(***************************************************************************)
\* The processQuery call of the session's latest query is over: it returned, or
\* an exception left it.
QueryThrew ==
    pc \in {"closing", "exited"}
    /\ thrown \in {"SyntaxError", "TransportError", "McpError"}

QueryEnded == pc = "returned" \/ QueryThrew

NumToolMessages(msgs) == Cardinality({k \in 1..Len(msgs) : msgs[k].role = "tool"})

AllDecode(m) ==
    \A i \in 1..NumCalls(m) : JSONParse(ArgumentText(Calls(m)[i])).ok

\* N invocations, N tool messages, N follow-up queries, 1 + N model queries.
OneRound(m) ==
    /\ toolInvocations = NumCalls(m)
    /\ NumToolMessages(messages) = NumCalls(m)
    /\ modelQueries = 1 + NumCalls(m)

TextOf(content) == IF content.kind = "string" THEN content.chars ELSE <<>>

\* C2: when the first response carries no tool-call request, processQuery returns
\* exactly the text of the assistant message and has issued exactly one model query.
C2_PlainAnswer ==
    (pc = "returned" /\ ~HasToolCalls(message)) =>
        /\ answer = Str(TextOf(message.content))
        /\ modelQueries = 1

\* C2 witness: a response with text and no tool call has been returned.
C2_Witness ==
    /\ pc = "returned"
    /\ ~HasToolCalls(message)
    /\ message.content = Str(<<"A">>)
    /\ answer = Str(<<"A">>)

Alternating(msgs) ==
    \A k \in 1..Len(msgs) :
        msgs[k].role = (IF k % 2 = 1 THEN "user" ELSE "assistant")

\* C3 as stated: while no query of the session has triggered a tool call, the
\* history holds two messages per completed query, alternating user and assistant,
\* and the history sent with the k-th query holds the 2(k-1) earlier ones and the
\* new user message.
C3_AsStated ==
    /\ (pc = "returned" /\ toolFree) =>
           (Len(messages) = 2 * nQueries /\ Alternating(messages))
    /\ (pc = "create" /\ toolFree) => Len(messages) = 2 * nQueries - 1

UserTurns(msgs, text) ==
    Cardinality({k \in 1..Len(msgs) : msgs[k] = UserMessage(text)})

\* C4 as stated: the history passed with a model query is never shorter than the
\* one passed with the model query before it, and when a query repeats the text of
\* the query before it the history sent holds two user turns with that text.
C4_AsStated ==
    /\ prevSentLen <= sentLen
    /\ (pc = "create" /\ sameAsLast) => UserTurns(messages, query) >= 2

\* C5 as stated: when the argument text of a request does not decode, the tool is
\* not invoked for that request and, by the time the process is over, the decode
\* failure has been written to the console.
C5_AsStated ==
    (thrown = "SyntaxError") =>
        /\ toolInvocations = idx - 1
        /\ (pc = "exited" => "SyntaxError" \in reported)

\* C6 as stated: a request whose argument text does not decode is skipped and
\* nothing else: processQuery is not left by an exception, so the loop goes on.
C6_AsStated ==
    \A k \in 1..(IF message = NoValue THEN 0 ELSE NumCalls(message)) :
        (idx = k /\ ~JSONParse(ArgumentText(Calls(message)[k])).ok) =>
            /\ thrown = "none"
            /\ pc \notin {"closing", "exited"}

\* C7 as stated: when the host refuses a call that names a tool absent from the
\* catalog, the error is written to the console and the main flow is not on its
\* way out.
C7_AsStated ==
    (thrown = "McpError" /\ toolName \notin tools) =>
        /\ "McpError" \in reported
        /\ pc \notin {"closing", "exited"}

\* C8: an error payload returned by the host is the content of the tool message
\* of its request, the follow-up query after it has been issued, and a call that
\* returns after an error payload has invoked every request of the round.
C8_ErrorPayloadFolded ==
    /\ \A i \in 1..Len(toolResults) :
           toolResults[i].isError =>
               /\ Len(messages) >= 1 + 2 * i
               /\ messages[1 + 2 * i] =
                      [role |-> "tool", tool_call_id |-> Calls(message)[i].id,
                       content |-> toolResults[i].content]
               /\ modelQueries >= 1 + i
    /\ (pc = "returned" /\ errorResults # {}) =>
           toolInvocations = NumCalls(message)

\* C8 witness: the first of two requests got an error payload, and the call
\* returned after invoking both.
C8_Witness ==
    /\ pc = "returned"
    /\ NumCalls(message) = 2
    /\ Len(toolResults) = 2
    /\ toolResults[1].isError
    /\ toolInvocations = 2

\* C9 as stated: the connection is closed at most once in a session, and exactly
\* once by the time the process has left main's finally block.
C9_AsStated ==
    /\ closeCalls <= 1
    /\ (pc = "exited" /\ mainCleanups > 0) => closeCalls = 1

\* C10 as stated: the exit status is 0 only when the user quit; when
\* connectToServer failed or an error left the interactive loop it is not 0.
C10_AsStated ==
    (pc = "exited" /\ thrown # "none") => exitCode \notin {-1, 0}

\* C11 as stated: when the command line holds a port value that is not an integer,
\* the process is over with status 1 and the diagnostic written, and no connection
\* to the tool host and no model query has been attempted.
C11_AsStated ==
    badArg =>
        /\ pc = "exited"
        /\ exitCode = 1
        /\ "Invalid value for --mcp-localhost-port" \in reported
        /\ ~handlersSet
        /\ nQueries = 0

\* C12 as stated: once a transport close or error event has been delivered, or a
\* transport error was thrown by an in-flight call, no further user query is
\* processed and no further model query or tool call is issued.
C12_AsStated ==
    [][(events > 0 \/ thrown = "TransportError") =>
           /\ nQueries' = nQueries
           /\ modelQueries' = modelQueries
           /\ toolInvocations' = toolInvocations]_vars

ContainsSeq(text, frag) ==
    \E k \in 0..(Len(text) - Len(frag)) : SubSeq(text, k + 1, k + Len(frag)) = frag

\* C13 as stated: when the process is over, the text printed for the latest query
\* holds a trace line for every callTool that query performed, also when a later
\* step of the query failed.
C13_AsStated ==
    pc = "exited" =>
        \A i \in 1..Len(toolResults) :
            /\ printed # NoValue
            /\ ContainsSeq(printed.chars, TraceLine(invoked[i].name, invoked[i].args))

\* C14: once connecting or listing the tools has failed, the main flow is on its
\* way out: the catalog is empty, the interactive loop was never entered and no
\* query or model query was ever started.
C14_StartupAborted ==
    thrown = "ConnectionError" =>
        /\ pc \in {"closing", "exited"}
        /\ tools = {}
        /\ nQueries = 0
        /\ modelQueries = 0
        /\ "Failed to connect to MCP server" \in reported

\* C14 witness: listTools failed after the handshake succeeded, and the process
\* is over.
C14_Witness ==
    /\ pc = "exited"
    /\ thrown = "ConnectionError"
    /\ handlersSet
    /\ tools = {}

ToolMessagesFor(msgs, id) ==
    {j \in 1..Len(msgs) : msgs[j].role = "tool" /\ msgs[j].tool_call_id = id}

\* C15 as stated: whenever a model query is outstanding, every request carried by
\* an assistant message of the history sent has exactly one tool message with its
\* id in that history.
C15_AsStated ==
    pc \in {"create", "followup"} =>
        \A k \in 1..Len(messages) :
            messages[k].role = "assistant" =>
                \A c \in 1..NumCalls(messages[k]) :
                    Cardinality(ToolMessagesFor(messages,
                                                Calls(messages[k])[c].id)) = 1

\* The texts, each on its own line.
RECURSIVE OnLines(_)
OnLines(frags) ==
    IF frags = <<>> THEN <<>>
    ELSE IF Len(frags) = 1 THEN frags[1]
    ELSE OnLines(SubSeq(frags, 1, Len(frags) - 1)) \o <<"\n">> \o frags[Len(frags)]

TextFragment(content) ==
    IF content.kind = "string" /\ content.chars # <<>> THEN <<content.chars>> ELSE <<>>

\* The fragments of requests i..N of message m, given the follow-up contents fs.
RECURSIVE RoundFragments(_, _, _)
RoundFragments(m, fs, i) ==
    IF i > NumCalls(m) THEN <<>>
    ELSE <<TraceLine(Calls(m)[i].function.name,
                     JSONParse(ArgumentText(Calls(m)[i])).value)>>
         \o TextFragment(fs[i])
         \o RoundFragments(m, fs, i + 1)

\* C16: the answer returned is the initial assistant text (if any), then for each
\* request in provider order its trace line and its follow-up text (if any), each
\* on its own line; the tools were invoked in that order.
C16_AnswerInOrder ==
    pc = "returned" =>
        /\ Len(followups) = NumCalls(message)
        /\ answer = Str(OnLines(TextFragment(message.content)
                                \o RoundFragments(message, followups, 1)))
        /\ Len(invoked) = NumCalls(message)
        /\ \A i \in 1..Len(invoked) :
               invoked[i].name = Calls(message)[i].function.name

\* C16 witness: an answer of five lines: the initial text, and a trace line and a
\* follow-up text for each of two requests.
C16_Witness ==
    /\ pc = "returned"
    /\ NumCalls(message) = 2
    /\ Len(finalText) = 5
    /\ Truthy(message.content)

\* C17: at most one processQuery call is in flight and at most one external
\* operation of the main flow is outstanding; while a query is in flight the
\* outstanding operation is one of its own, never the read of the next line.
C17_OneAtATime ==
    /\ inFlight \in {0, 1}
    /\ Len(pending) <= 1
    /\ pc = "question" => (inFlight = 0 /\ pending = <<"question">>)
    /\ inFlight = 1 => (pc \in {"create", "callTool", "followup"} /\ pending = <<pc>>)
    /\ Len(invoked) = toolInvocations
    /\ pc = "callTool" => Len(toolResults) = toolInvocations - 1

\* C17 witness: the second tool call of the second query of a session is the one
\* outstanding operation.
C17_Witness ==
    /\ pc = "callTool"
    /\ idx = 2
    /\ nQueries = 2
    /\ pending = <<"callTool">>
    /\ inFlight = 1

\* C18 as stated: a processQuery call is left by an exception only when a
\* transport error or a remote tool error escapes; nothing in the content of a
\* response or of a request keeps it from returning.
C18_AsStated ==
    QueryThrew => thrown \in {"TransportError", "McpError"}

\* C19: the history sent with the k-th follow-up query holds exactly 1 + 2k
\* messages: the user message, then k pairs of the assistant message and the tool
\* message of requests 1..k in order, the last being that of request k.
C19_HistoryPairs ==
    pc = "followup" =>
        /\ Len(messages) = 1 + 2 * idx
        /\ sentLen = Len(messages)
        /\ messages[1] = UserMessage(query)
        /\ \A j \in 1..idx :
               /\ messages[2 * j] = message
               /\ messages[2 * j + 1].role = "tool"
               /\ messages[2 * j + 1].tool_call_id = Calls(message)[j].id

\* C19 witness: the second follow-up query of a call is outstanding.
C19_Witness ==
    /\ pc = "followup"
    /\ idx = 2
    /\ Len(messages) = 5

\* The process ended in main's argument loop, before the client was constructed.
ExitedInArguments == "Invalid value for --mcp-localhost-port" \in reported

\* C20: once the client is constructed, the process is over only after main's
\* finally block has called cleanup, so the close was requested at least once.
C20_CleanupBeforeExit ==
    (pc = "exited" /\ ~ExitedInArguments) =>
        /\ mainCleanups >= 1
        /\ closeCalls >= 1

\* C20 witness: the process is over after an error left the interactive loop.
C20_Witness ==
    /\ pc = "exited"
    /\ thrown = "TransportError"
    /\ mainCleanups = 1

====
